---- MODULE Spec2Model ----
(***************************************************************************)
(* Model of the stock-report tool: the Streamlit front end (src/app.py)    *)
(* and the FastAPI text-analysis service (src/api_service.py).             *)
(*                                                                         *)
(* Text is modelled as a sequence of one-character strings, so that        *)
(* str.upper() and str.replace() are computed and not assumed.  Prices are *)
(* integers (currency units); a moving average is the exact rational       *)
(* [num, den], and NaN (pandas' "undefined") is the value with den = 0.    *)
(* Display strings of the source are written in ASCII; the original text   *)
(* is quoted in the comment next to each.                                  *)
(***************************************************************************)
EXTENDS Integers, Sequences, FiniteSets, TLC

VARIABLES
    page,     \* st.session_state.page
    ticker,   \* st.session_state.ticker
    pc,       \* "idle": waiting for the user; "rerun": st.rerun() was called
    cache,    \* st.cache_data store of fetch_and_analyze, keyed by ticker
    dl,       \* outcome of the last yf.download call
    ret,      \* value returned by the last fetch_and_analyze call
    fetched,  \* whether that call ran the function body (a cache miss)
    http,     \* outcome of the last requests.get of fetch_ai_analysis
    ai,       \* value returned by the last fetch_ai_analysis call
    view,     \* what the last script run put on the screen
    req,      \* path parameter of the last request served by the API
    resp      \* the API's response to it

vars == <<page, ticker, pc, cache, dl, ret, fetched, http, ai, view, req, resp>>

-----------------------------------------------------------------------------
(* Bounds of the model *)

\* longest price series drawn for the trend analysis
MaxLen == 22
\* largest day-to-day change of a close in those series
MaxSlope == 2
\* first close of those series
BasePrice == 100

-----------------------------------------------------------------------------
(* Text *)

Lowercase == <<"a","b","c","d","e","f","g","h","i","j","k","l","m",
               "n","o","p","q","r","s","t","u","v","w","x","y","z">>
Uppercase == <<"A","B","C","D","E","F","G","H","I","J","K","L","M",
               "N","O","P","Q","R","S","T","U","V","W","X","Y","Z">>

upper_char(c) ==
    IF \E i \in 1..Len(Lowercase) : Lowercase[i] = c
    THEN Uppercase[CHOOSE i \in 1..Len(Lowercase) : Lowercase[i] = c]
    ELSE c

\* str.upper()
upper(s) == [i \in 1..Len(s) |-> upper_char(s[i])]

\* whether old occurs in s at position i
occurs_at(s, old, i) ==
    /\ i + Len(old) - 1 <= Len(s)
    /\ \A k \in 1..Len(old) : s[i + k - 1] = old[k]

RECURSIVE replace_from(_, _, _, _)
replace_from(s, old, new, i) ==
    IF i > Len(s) THEN <<>>
    ELSE IF occurs_at(s, old, i)
         THEN new \o replace_from(s, old, new, i + Len(old))
         ELSE <<s[i]>> \o replace_from(s, old, new, i + 1)

\* str.replace(old, new), old non-empty
replace(s, old, new) == replace_from(s, old, new, 1)

-----------------------------------------------------------------------------
(* api_service.py *)

K_2330  == <<"2","3","3","0",".","T","W">>
K_00878 == <<"0","0","8","7","8",".","T","W">>
K_0050  == <<"0","0","5","0",".","T","W">>

MOCK_AI_DATABASE ==
    (K_2330 :> [emotion |-> "strongly bullish",       \* "強烈看漲"
                conclusion |-> <<"AI demand surge, optimistic outlook">>,
                positive_news |-> <<"Q3 results beat expectations",
                                    "brokers raise target price">>,
                negative_news |-> <<"short-term consolidation pressure">>])
    @@
    (K_00878 :> [emotion |-> "neutral to bullish",    \* "中性偏看漲"
                 conclusion |-> <<"ETF structure, fundamentals support uptrend">>,
                 positive_news |-> <<"AI plus finance momentum",
                                     "steady growth of scale">>,
                 negative_news |-> <<"watch dividend volatility">>])
    @@
    (K_0050 :> [emotion |-> "neutral to bullish",     \* "中性偏看漲"
                conclusion |-> <<"core asset, long-term steady growth">>,
                positive_news |-> <<"scale heading to trillion-level ETF",
                                    "high TSMC weight">>,
                negative_news |-> <<"foreign investors keep net selling">>])

\* datetime.now().strftime(...): the clock is not modelled
Timestamp == "now"

AIAnalysisResponse(t, ts, e, c, p, n) ==
    [ticker |-> t, timestamp |-> ts, emotion |-> e, conclusion |-> c,
     positive_news |-> p, negative_news |-> n]

\* the handler with the lookup on the path parameter as received
get_ai_analysis_no_upper(ticker_in) ==
    IF ticker_in \in DOMAIN MOCK_AI_DATABASE
    THEN LET data == MOCK_AI_DATABASE[ticker_in]
         IN  AIAnalysisResponse(ticker_in, Timestamp, data.emotion, data.conclusion,
                                data.positive_news, data.negative_news)
    ELSE AIAnalysisResponse(ticker_in, Timestamp, "neutral",
                            <<"AI library has no text data for ">> \o ticker_in
                                \o <<", quantitative analysis only">>,
                            <<>>, <<>>)

\* GET /api/analyze/{ticker}
get_ai_analysis(ticker_in) ==
    LET t == upper(ticker_in)
    IN  IF t \in DOMAIN MOCK_AI_DATABASE
        THEN LET data == MOCK_AI_DATABASE[t]
             IN  AIAnalysisResponse(t, Timestamp, data.emotion, data.conclusion,
                                    data.positive_news, data.negative_news)
        ELSE AIAnalysisResponse(t, Timestamp, "neutral",      \* "中性"
                                <<"AI library has no text data for ">> \o t
                                    \o <<", quantitative analysis only">>,
                                <<>>, <<>>)

-----------------------------------------------------------------------------
(* app.py: fetch_and_analyze *)

ShortWindow == 5
LongWindow == 20

NaN == [num |-> 0, den |-> 0]
Mean(sum, n) == [num |-> sum, den |-> n]
\* a > b on two defined averages
gt(a, b) == a.num * b.den > b.num * a.den
ge(a, b) == a.num * b.den >= b.num * a.den

\* the running window sum of pandas' rolling aggregation: add the entering
\* value, remove the one that leaves the window
RECURSIVE roll_sum(_, _, _)
roll_sum(x, window, i) ==
    IF i = 0 THEN 0
    ELSE roll_sum(x, window, i - 1) + x[i]
            - (IF i > window THEN x[i - window] ELSE 0)

\* a rolling mean that is defined one row early (min_periods = window - 1)
rolling_mean_early(x, window) ==
    [i \in 1..Len(x) |->
        IF i < window - 1 THEN NaN
        ELSE IF i < window THEN Mean(roll_sum(x, window, i), window - 1)
        ELSE Mean(roll_sum(x, window, i), window)]

\* Series.rolling(window=window).mean()
rolling_mean(x, window) ==
    [i \in 1..Len(x) |->
        IF i < window THEN NaN ELSE Mean(roll_sum(x, window, i), window)]

notna_row(df, i) == df.MA_Short[i] # NaN /\ df.MA_Long[i] # NaN

RECURSIVE notna_index(_, _)
notna_index(df, i) ==
    IF i = 0 THEN <<>>
    ELSE notna_index(df, i - 1) \o (IF notna_row(df, i) THEN <<i>> ELSE <<>>)

take(col, idx) == [k \in 1..Len(idx) |-> col[idx[k]]]

\* DataFrame.dropna(): the rows without a NaN (closes are never NaN here)
dropna(df) ==
    LET idx == notna_index(df, Len(df.Current_Price))
    IN  [Date |-> take(df.Date, idx),
         Current_Price |-> take(df.Current_Price, idx),
         MA_Short |-> take(df.MA_Short, idx),
         MA_Long |-> take(df.MA_Long, idx)]

\* Series.iloc[-1]
iloc_last(col) == col[Len(col)]

\* the comparison with its operands exchanged
trend_of_swapped(latest_short_ma, latest_long_ma) ==
    IF gt(latest_long_ma, latest_short_ma) THEN "bullish"
    ELSE "bearish_or_consolidating"

\* the comparison with the tie counted as a rise
trend_of_ge(latest_short_ma, latest_long_ma) ==
    IF ge(latest_short_ma, latest_long_ma) THEN "bullish"
    ELSE "bearish_or_consolidating"

\* "看漲" if latest_short_ma > latest_long_ma else "看跌/盤整"
trend_of(latest_short_ma, latest_long_ma) ==
    IF gt(latest_short_ma, latest_long_ma) THEN "bullish"
    ELSE "bearish_or_consolidating"

None == [isNone |-> TRUE, Date |-> <<>>, Current_Price |-> <<>>,
         MA_Short |-> <<>>, MA_Long |-> <<>>]

MsgNoData == "no price data"             \* "無法獲取股價數據。"
MsgFetchFailed == "data fetch failed"    \* "數據抓取失敗，請檢查代碼或網路。"
DescInsufficient == "insufficient data"  \* "數據不足，無法計算。"
DescTrend == "short (5d) vs long (20d) moving average trend"

\* the outcomes of yf.download: it raises, or it returns rows (maybe none)
Raised == [kind |-> "raise", Date |-> <<>>, Close |-> <<>>]
Rows(dates, closes) == [kind |-> "rows", Date |-> dates, Close |-> closes]

\* both averages computed over the short window
with_moving_averages_same_window(raw) ==
    [isNone |-> FALSE,
     Date |-> raw.Date,
     Current_Price |-> raw.Close,
     MA_Short |-> rolling_mean(raw.Close, ShortWindow),
     MA_Long |-> rolling_mean(raw.Close, ShortWindow)]

\* lines 29-31: reset_index, rename, the two moving-average columns
with_moving_averages(raw) ==
    [isNone |-> FALSE,
     Date |-> raw.Date,
     Current_Price |-> raw.Close,
     MA_Short |-> rolling_mean(raw.Close, ShortWindow),
     MA_Long |-> rolling_mean(raw.Close, LongWindow)]

\* lines 34-40
quant_trend_of(analyzed_df) ==
    IF Len(analyzed_df.Current_Price) > 0
    THEN trend_of(iloc_last(analyzed_df.MA_Short), iloc_last(analyzed_df.MA_Long))
    ELSE "N/A"

\* the body of fetch_and_analyze on an outcome of yf.download:
\* a 2-tuple on failure, a 3-tuple otherwise
fetch_and_analyze(outcome) ==
    IF outcome.kind = "raise" THEN <<None, MsgFetchFailed>>
    ELSE IF Len(outcome.Close) = 0 THEN <<None, MsgNoData>>
    ELSE LET df == with_moving_averages(outcome)
             analyzed_df == dropna(df)
         IN  <<df, quant_trend_of(analyzed_df),
               IF Len(analyzed_df.Current_Price) > 0 THEN DescTrend
               ELSE DescInsufficient>>

-----------------------------------------------------------------------------
(* Price series drawn for the trend analysis: the closes start at BasePrice *)
(* and change by one slope per day for n1 days, then by another for n2.     *)

Slopes == (0 - MaxSlope)..MaxSlope

RECURSIVE closes_of(_, _, _, _, _)
closes_of(n1, s1, n2, s2, i) ==
    IF i = 0 THEN <<>>
    ELSE LET prev == closes_of(n1, s1, n2, s2, i - 1)
         IN  IF i = 1 THEN <<BasePrice>>
             ELSE Append(prev, prev[i - 1] + (IF i <= n1 THEN s1 ELSE s2))

TrendSeries ==
    { Rows([i \in 1..(n[1] + n[2]) |-> i],
           closes_of(n[1], s[1], n[2], s[2], n[1] + n[2])) :
        n \in {m \in (0..MaxLen) \X (0..MaxLen) : m[1] + m[2] <= MaxLen},
        s \in Slopes \X Slopes }

-----------------------------------------------------------------------------
(* Initial state: a new session after its first script run *)

NoEntry == <<>>
NoDownload == [kind |-> "not_called", Date |-> <<>>, Close |-> <<>>]
NotCalled == [kind |-> "not_called", status |-> 0, body |-> "none"]
NoResult == [isNone |-> TRUE, wellformed |-> FALSE,
             body |-> AIAnalysisResponse(<<>>, "", "", <<>>, <<>>, <<>>)]
NoResponse == [status |-> 0, body |-> AIAnalysisResponse(<<>>, "", "", <<>>, <<>>, <<>>)]

InputView ==
    [kind |-> "input", generate_button |-> TRUE, back_button |-> FALSE,
     exception |-> "none", st_error |-> "none",
     stock_name |-> <<>>, latest_price |-> 0, latest_date |-> 0,
     quant_trend |-> "", emotion |-> ""]

Tickers == {K_2330, <<"9","9","9","9",".","X","X">>}

Init ==
    /\ page = "input"
    /\ ticker = K_2330
    /\ pc = "idle"
    /\ cache = [t \in Tickers |-> NoEntry]
    /\ dl = NoDownload
    /\ ret = NoEntry
    /\ fetched = FALSE
    /\ http = NotCalled
    /\ ai = NoResult
    /\ view = InputView
    /\ req = <<>>
    /\ resp = NoResponse

-----------------------------------------------------------------------------
(* The analysis on its own: one call of fetch_and_analyze, from the       *)
(* initial state, on a drawn outcome of the download                      *)

AnalyzeCall ==
    \E outcome \in TrendSeries \cup {Raised} :
        /\ ~fetched
        /\ dl' = outcome
        /\ ret' = fetch_and_analyze(outcome)
        /\ fetched' = TRUE
        /\ UNCHANGED <<page, ticker, pc, cache, http, ai, view, req, resp>>

SpecTrend == Init /\ [][AnalyzeCall]_vars

-----------------------------------------------------------------------------
(* app.py: fetch_ai_analysis *)

ConnectionError == [kind |-> "connection_error", status |-> 0, body |-> "none"]
Response(status, body) == [kind |-> "response", status |-> status, body |-> body]

\* what requests.get can come back with: no connection, or a status and a
\* body.  "report" is the service's JSON document for the ticker.
Statuses == {200, 201, 500}
Bodies == {"report", "not_json", "json_null", "json_object_without_keys"}
HttpOutcomes == {ConnectionError} \cup {Response(st, b) : st \in Statuses, b \in Bodies}

\* Response.raise_for_status(): HTTPError for a 4xx or 5xx status
raises_for_status(h) == h.status >= 400 /\ h.status < 600

Result(isNone, wellformed, body) ==
    [isNone |-> isNone, wellformed |-> wellformed, body |-> body]

\* the value returned and the st.error message shown, on an outcome of
\* requests.get
fetch_ai_analysis(tk, h) ==
    IF h.kind = "connection_error"
    THEN [result |-> NoResult, st_error |-> "API connection failed"]
    ELSE IF raises_for_status(h) \/ h.body = "not_json"
    THEN [result |-> NoResult, st_error |-> "AI text analysis service error"]
    ELSE IF h.body = "json_null"
    THEN [result |-> NoResult, st_error |-> "none"]
    ELSE IF h.body = "json_object_without_keys"
    THEN [result |-> Result(FALSE, FALSE, NoResult.body), st_error |-> "none"]
    ELSE [result |-> Result(FALSE, TRUE, get_ai_analysis(tk)), st_error |-> "none"]

-----------------------------------------------------------------------------
(* app.py: main *)

\* the download results drawn for the report page
AppSeries ==
    { Rows([i \in 1..21 |-> i], [i \in 1..21 |-> 495 + 5 * i]),
      Rows(<<1, 2, 3>>, <<10, 11, 12>>),
      Rows(<<1, 3, 3, 2>>, <<10, 30, 31, 20>>),
      Rows(<<>>, <<>>) }
Downloads == AppSeries \cup {Raised}

\* what the user may type into the text input
TypedTickers ==
    { K_2330, <<"2","3","3","0",".","t","w">>, <<"9","9","9","9",".","x","x">> }

\* the script stopped by an uncaught exception: nothing after it is drawn
ExceptionView(e) ==
    [InputView EXCEPT !.kind = "exception", !.generate_button = FALSE,
                      !.exception = e]

\* lines 88-93: the back button alone (after the st.error of the AI call)
UnavailableView(msg) ==
    [InputView EXCEPT !.kind = "unavailable", !.generate_button = FALSE,
                      !.back_button = TRUE, !.st_error = msg]

\* lines 97-144
ReportView(df, quant_trend, a) ==
    [kind |-> "report", generate_button |-> FALSE, back_button |-> TRUE,
     exception |-> "none", st_error |-> "none",
     stock_name |-> replace(a.body.ticker, <<".","T","W">>, <<>>),
     latest_price |-> iloc_last(df.Current_Price),
     latest_date |-> iloc_last(df.Date),
     quant_trend |-> quant_trend, emotion |-> a.body.emotion]

\* unpacking into (df, quant_trend, quant_desc) needs three values
unpacks(r) == Len(r) = 3

\* st.cache_data: a stored value is returned without running the body
cached_call(d) ==
    IF Len(cache[ticker]) > 0
    THEN [value |-> cache[ticker], ran |-> FALSE]
    ELSE [value |-> fetch_and_analyze(d), ran |-> TRUE]

\* one run of the input page (lines 71-78)
InputRun(typed, generate) ==
    /\ page = "input"
    /\ ticker' = upper(typed)
    /\ view' = InputView
    /\ IF generate
       THEN page' = "report" /\ pc' = "rerun"
       ELSE page' = page /\ pc' = "idle"
    /\ UNCHANGED <<cache, dl, ret, fetched, http, ai, req, resp>>

\* one run of the report page (lines 81-144); back: the back button was
\* pressed; d, h: what yf.download and requests.get do if they are called
ReportRun(back, d, h) ==
    /\ page = "report"
    /\ LET call == cached_call(d)
           r == call.value
           a == fetch_ai_analysis(ticker, h)
           leave == /\ page' = (IF back THEN "input" ELSE page)
                    /\ pc' = (IF back THEN "rerun" ELSE "idle")
           stay == page' = page /\ pc' = "idle"
       IN  /\ ret' = r
           /\ fetched' = call.ran
           /\ dl' = (IF call.ran THEN d ELSE dl)
           /\ cache' = [cache EXCEPT ![ticker] = r]
           /\ IF ~unpacks(r)
              THEN \* line 85: ValueError, the script run ends
                   /\ http' = NotCalled
                   /\ ai' = NoResult
                   /\ view' = ExceptionView("ValueError")
                   /\ stay
              ELSE /\ http' = h
                   /\ ai' = a.result
                   /\ IF r[1].isNone \/ a.result.isNone
                      THEN /\ view' = UnavailableView(a.st_error)
                           /\ leave
                      ELSE IF ~a.result.wellformed
                      THEN \* line 97: KeyError, the script run ends
                           /\ view' = ExceptionView("KeyError")
                           /\ stay
                      ELSE /\ view' = ReportView(r[1], r[2], a.result)
                           /\ leave
    /\ UNCHANGED <<ticker, req, resp>>

\* the calls a run of the report page makes: yf.download on a cache miss
\* only, requests.get only when line 85 has not raised
DownloadsNow == IF Len(cache[ticker]) > 0 THEN {dl} ELSE Downloads
HttpOutcomesNow(d) ==
    IF unpacks(cached_call(d).value) THEN HttpOutcomes ELSE {NotCalled}

\* the user edits the text input
TypeTicker ==
    \E t \in TypedTickers :
        /\ pc = "idle" /\ view.kind = "input"
        /\ InputRun(t, FALSE)

\* the user presses the generate button
PressGenerate ==
    /\ pc = "idle" /\ view.generate_button
    /\ InputRun(ticker, TRUE)

\* the user presses the back button.  The two st.button calls of the report
\* page (lines 90 and 142) have the same label and type, hence the same
\* widget: the press is seen by whichever of them the run reaches.
PressBack ==
    \E d \in DownloadsNow : \E h \in HttpOutcomesNow(d) :
        /\ pc = "idle" /\ view.back_button
        /\ ReportRun(TRUE, d, h)

\* the run started by st.rerun(), or a rerun asked for by the user
RerunInput == InputRun(ticker, FALSE)

RerunReport ==
    \E d \in DownloadsNow : \E h \in HttpOutcomesNow(d) : ReportRun(FALSE, d, h)

\* ttl=3600: an hour after it was stored, an entry is dropped
CacheExpire ==
    \E t \in Tickers :
        /\ Len(cache[t]) > 0
        /\ cache' = [cache EXCEPT ![t] = NoEntry]
        /\ UNCHANGED <<page, ticker, pc, dl, ret, fetched, http, ai, view, req, resp>>

Next ==
    \/ TypeTicker
    \/ PressGenerate
    \/ PressBack
    \/ RerunInput
    \/ RerunReport
    \/ CacheExpire

Spec == Init /\ [][Next]_vars

-----------------------------------------------------------------------------
(* The API on its own: one request, with the symbol in any letter case *)

lower_char(c) ==
    IF \E i \in 1..Len(Uppercase) : Uppercase[i] = c
    THEN Lowercase[CHOOSE i \in 1..Len(Uppercase) : Uppercase[i] = c]
    ELSE c

\* s with the characters at the positions of m in lower case
CaseVariants(s) ==
    { [i \in 1..Len(s) |-> IF i \in m THEN lower_char(s[i]) ELSE s[i]] :
        m \in SUBSET (1..Len(s)) }

SymbolInputs ==
    CaseVariants(K_2330) \cup CaseVariants(K_00878) \cup CaseVariants(K_0050)
    \cup CaseVariants(<<"9","9","9","9",".","X","X">>)
    \cup CaseVariants(<<"2","3","3","0",".","T","W","O">>)
    \cup CaseVariants(<<"2","3","3","0">>)
    \cup CaseVariants(<<"T","W">>)
    \cup CaseVariants(<<"A","A","P","L">>)
    \cup CaseVariants(<<"T","S","L","A">>)
    \cup CaseVariants(<<"G","O","O","G","L">>)
    \cup CaseVariants(<<"0","0","5","0",".","T">>)
    \cup CaseVariants(<<"M","S","F","T">>)

ApiCall ==
    \E s \in SymbolInputs :
        /\ resp.status = 0
        /\ req' = s
        /\ resp' = [status |-> 200, body |-> get_ai_analysis(s)]
        /\ UNCHANGED <<page, ticker, pc, cache, dl, ret, fetched, http, ai, view>>

SpecApi == Init /\ [][ApiCall]_vars

-----------------------------------------------------------------------------
(* Properties of the analysis (checked under SpecTrend) *)

RECURSIVE total(_, _, _)
\* x[lo] + ... + x[hi]
total(x, lo, hi) == IF lo > hi THEN 0 ELSE x[hi] + total(x, lo, hi - 1)

Analysed == fetched /\ Len(ret) = 3
Closes == ret[1].Current_Price
BothDefined ==
    {i \in 1..Len(Closes) : ret[1].MA_Short[i].den > 0 /\ ret[1].MA_Long[i].den > 0}
Newest(S) == CHOOSE i \in S : \A j \in S : j <= i

\* C1: the trend signal is decided by the short and long moving averages
\* (s, l) at the most recent row where both are defined: Bullish when s > l,
\* Bearish_or_Consolidating when s <= l, a tie included.
C1_TrendFromLatestAverages ==
    (Analysed /\ BothDefined # {}) =>
        LET i == Newest(BothDefined)
            s == ret[1].MA_Short[i]
            l == ret[1].MA_Long[i]
        IN  /\ (s.num * l.den > l.num * s.den) => ret[2] = "bullish"
            /\ (s.num * l.den <= l.num * s.den) => ret[2] = "bearish_or_consolidating"

\* exactly 20 equal closes: the two averages tie and the signal is not Bullish
C1_Witness ==
    /\ Analysed
    /\ Len(Closes) = LongWindow
    /\ \A i \in 1..Len(Closes) : Closes[i] = Closes[1]
    /\ ret[1].MA_Short[LongWindow] = Mean(ShortWindow * Closes[1], ShortWindow)
    /\ ret[1].MA_Long[LongWindow] = Mean(LongWindow * Closes[1], LongWindow)
    /\ ret[2] = "bearish_or_consolidating"

\* C2: for a series of at least 20 closes the two moving-average columns are
\* as long as the series, exactly the first 4 short and the first 19 long
\* entries are NaN, and every later entry is the mean of the 5 (20) closes
\* that end at its row.
C2_MovingAverages ==
    (Analysed /\ Len(dl.Close) >= 20) =>
        LET df == ret[1]
            n == Len(dl.Close)
        IN  /\ df.Current_Price = dl.Close
            /\ Len(df.MA_Short) = n
            /\ Len(df.MA_Long) = n
            /\ \A i \in 1..n :
                /\ (df.MA_Short[i] = NaN) <=> (i <= 4)
                /\ (df.MA_Long[i] = NaN) <=> (i <= 19)
                /\ i > 4 => /\ df.MA_Short[i].den > 0
                            /\ df.MA_Short[i].num * 5
                                 = total(dl.Close, i - 4, i) * df.MA_Short[i].den
                /\ i > 19 => /\ df.MA_Long[i].den > 0
                             /\ df.MA_Long[i].num * 20
                                  = total(dl.Close, i - 19, i) * df.MA_Long[i].den

\* a series longer than the long window whose closes rise and then fall
C2_Witness ==
    /\ Analysed
    /\ Len(Closes) > LongWindow
    /\ Closes[2] > Closes[1]
    /\ Closes[Len(Closes)] < Closes[Len(Closes) - 1]
    /\ ret[1].MA_Long[Len(Closes)] # NaN
    /\ ret[1].MA_Long[Len(Closes)] # ret[1].MA_Long[Len(Closes) - 1]

RisingTail(x, k) ==
    /\ Len(x) >= k
    /\ \A i \in (Len(x) - k + 2)..Len(x) : x[i - 1] < x[i]

\* C3: when the final 20 closes rise strictly, the short average of the last
\* row is greater than its long average and the signal is Bullish.
C3_RisingTailIsBullish ==
    (fetched /\ dl.kind = "rows" /\ RisingTail(dl.Close, 20)) =>
        LET n == Len(dl.Close)
        IN  /\ Len(ret) = 3
            /\ ret[1].MA_Short[n].den > 0
            /\ ret[1].MA_Long[n].den > 0
            /\ ret[1].MA_Short[n].num * ret[1].MA_Long[n].den
                 > ret[1].MA_Long[n].num * ret[1].MA_Short[n].den
            /\ ret[2] = "bullish"

\* 22 closes: a fall, then a rise of 20 closes with two different steps
C3_Witness ==
    /\ fetched /\ dl.kind = "rows"
    /\ Len(dl.Close) = 22
    /\ dl.Close[2] < dl.Close[1]
    /\ RisingTail(dl.Close, 20)
    /\ ret[2] = "bullish"

Undetermined ==
    /\ Len(ret) = 3
    /\ ret[2] = "N/A"
    /\ Len(ret[1].MA_Long) = Len(dl.Close)
    /\ \A i \in 1..Len(ret[1].MA_Long) : ret[1].MA_Long[i] = NaN

\* C6 as stated: every series of fewer than 20 closes, the empty one
\* included, is analysed to Undetermined with no long average defined.
C6_ShortSeriesUndetermined_Original ==
    (fetched /\ dl.kind = "rows" /\ Len(dl.Close) < 20) => Undetermined

\* C6 as amended: every non-empty series of fewer than 20 closes is analysed
\* to Undetermined with no long average defined; the empty series is not
\* analysed but returned as the failure "no price data".
C6_ShortSeriesUndetermined ==
    /\ (fetched /\ dl.kind = "rows" /\ Len(dl.Close) \in 1..19) => Undetermined
    /\ (fetched /\ dl.kind = "rows" /\ Len(dl.Close) = 0) => ret = <<None, MsgNoData>>

\* 19 closes: the short average is defined, the long one nowhere
C6_Witness ==
    /\ fetched /\ dl.kind = "rows"
    /\ Len(dl.Close) = 19
    /\ ret[1].MA_Short[19] # NaN
    /\ ret[2] = "N/A"

-----------------------------------------------------------------------------
(* Properties of the API (checked under SpecApi) *)

same_letter(a, b) ==
    \/ a = b
    \/ \E k \in 1..Len(Lowercase) : {a, b} = {Lowercase[k], Uppercase[k]}
same_ignoring_case(a, b) ==
    Len(a) = Len(b) /\ \A i \in 1..Len(a) : same_letter(a[i], b[i])
Entries(s) == {k \in DOMAIN MOCK_AI_DATABASE : same_ignoring_case(k, s)}
names(text, s) == \E i \in 1..Len(text) : occurs_at(text, s, i)
is_upper(s) == \A i \in 1..Len(s) : \A k \in 1..Len(Lowercase) : s[i] # Lowercase[k]

\* C5: the API answers every symbol with status 200 and a complete report.
\* A symbol with no entry in the database, in any letter case, gets the
\* neutral category, a conclusion naming the uppercased symbol and empty
\* news lists; a symbol that has an entry in some letter case gets that
\* entry's content.
C5_NeutralFallback ==
    resp.status # 0 =>
        /\ resp.status = 200
        /\ DOMAIN resp.body = {"ticker", "timestamp", "emotion", "conclusion",
                               "positive_news", "negative_news"}
        /\ is_upper(resp.body.ticker)
        /\ same_ignoring_case(resp.body.ticker, req)
        /\ Entries(req) = {} =>
              /\ resp.body.emotion = "neutral"
              /\ names(resp.body.conclusion, resp.body.ticker)
              /\ resp.body.positive_news = <<>>
              /\ resp.body.negative_news = <<>>
        /\ \A k \in Entries(req) :
              /\ resp.body.emotion = MOCK_AI_DATABASE[k].emotion
              /\ resp.body.conclusion = MOCK_AI_DATABASE[k].conclusion
              /\ resp.body.positive_news = MOCK_AI_DATABASE[k].positive_news
              /\ resp.body.negative_news = MOCK_AI_DATABASE[k].negative_news

\* a request in lower case for a symbol of the database
C5_Witness ==
    /\ resp.status = 200
    /\ req = <<"2","3","3","0",".","t","w">>
    /\ resp.body.ticker = K_2330
    /\ resp.body.emotion = "strongly bullish"

-----------------------------------------------------------------------------
(* Properties of the report page (checked under Spec) *)

ReportPageRan == view.kind # "input"
PriceFetchFailed == ReportPageRan /\ Len(ret) = 2
LookupFailed ==
    \/ http.kind = "connection_error"
    \/ http.kind = "response" /\ (http.status # 200 \/ http.body # "report")

\* C4: when the price fetch fails, with either kind of failure, the run ends
\* as "report unavailable" showing which failure it was, without a report
\* and without using a sentiment result.
C4_PriceFailureIsReportUnavailable ==
    PriceFetchFailed =>
        /\ view.kind = "unavailable"
        /\ view.exception = "none"
        /\ view.st_error = ret[2]
        /\ view.emotion = ""

\* C7: whenever the price fetch succeeded and the sentiment lookup failed
\* (no connection, a status other than 200, a malformed response), the run
\* ends as "report unavailable", whatever the symbol and the cause.
C7_SentimentFailureIsReportUnavailable ==
    (ReportPageRan /\ Len(ret) = 3 /\ LookupFailed) =>
        /\ view.kind = "unavailable"
        /\ view.exception = "none"

\* C8: the report shows the price and date of the row with the greatest
\* date, the series it is read from being ascending by date without
\* repeated dates, whatever the order of the rows downloaded.
C8_LatestIsGreatestDate ==
    view.kind = "report" =>
        LET df == ret[1]
            n == Len(df.Date)
        IN  /\ \A i \in 1..n : df.Date[i] <= view.latest_date
            /\ \E i \in 1..n : /\ df.Date[i] = view.latest_date
                               /\ df.Current_Price[i] = view.latest_price
            /\ \A i, j \in 1..n : i < j => df.Date[i] < df.Date[j]

\* C9: a run of the report page is never answered with a download failure
\* out of the cache: a request that follows a failed download fetches anew.
C9_DownloadFailureNotCached ==
    (ReportPageRan /\ PriceFetchFailed /\ ret[2] = MsgFetchFailed) => fetched

\* the failures fetch_ai_analysis does turn into None end as "report
\* unavailable" with the back button
C7_CaughtFailures ==
    (ReportPageRan /\ Len(ret) = 3 /\ http.kind # "not_called"
        /\ (http.kind = "connection_error" \/ raises_for_status(http)
              \/ http.body \in {"not_json", "json_null"})) =>
        view.kind = "unavailable" /\ view.back_button

\* the transitions of the page alone
C10_Transitions ==
    [][ /\ page' \in {"input", "report"}
        /\ (page = "input" /\ page' = "report") => PressGenerate
        /\ (page = "report" /\ page' = "input") => PressBack ]_vars

\* C10: the page is "input" or "report"; it goes from input to report only
\* by the generate button and from report to input only by the back
\* button; and every run of the report page offers the back button.
C10_Navigation ==
    [][ /\ page' \in {"input", "report"}
        /\ (page = "input" /\ page' = "report") => PressGenerate
        /\ (page = "report" /\ page' = "input") => PressBack
        /\ (page' = "report" /\ pc' = "idle") => view'.back_button ]_vars

====
